---- MODULE Spec2Model ----
(***************************************************************************)
(* Starship re-entry simulator (React + react-three-fiber).                *)
(*                                                                         *)
(* The model covers the App component's three pieces of hook state         *)
(* (simulationState, magnetPower, isRunning), the props that the useFrame  *)
(* callbacks of <Starship> and <AtmosphereVolume> close over, the          *)
(* imperatively written scene values (ship position, shader uniforms) and  *)
(* the three user controls.                                                *)
(*                                                                         *)
(* A useFrame callback is a closure created by a render: it reads the      *)
(* simulationState, magnetPower and isRunning of the render that was last  *)
(* committed.  setSimulationState does not change what a closure reads; it *)
(* schedules a re-render, and only the commit of that re-render replaces   *)
(* the closures.  On a legacy root the re-render runs inside the setState  *)
(* call; on a concurrent (React 18) root it runs in a later task, and      *)
(* display frames may come first.  Neither React nor react-three-fiber is  *)
(* part of the repository, so both roots are modelled (concurrentRoot).    *)
(* Within a frame react-three-fiber calls the callbacks in mount order:    *)
(* Starship, then AtmosphereVolume, then the scene is drawn.               *)
(*                                                                         *)
(* Fixed-point units (the code computes in IEEE doubles):                  *)
(*   altitude            metres                                            *)
(*   speed               cm/s          (7222.22 m/s = 722222)              *)
(*   delta               centiseconds                                      *)
(*   density             1e-9 kg/m^3   (rho0 = 1.225 = 1225000000)         *)
(*   effectiveHeat       1e-6          (so temperature = 300 + localHeat)  *)
(*   magnetPower         tenths        (slider step 0.1, range 0..40)      *)
(*   scene y-coordinates 1e-3 scene units (altitude / 1000 = altitude)     *)
(* Every intermediate value stays below 2^31.                              *)
(***************************************************************************)
EXTENDS Integers, Sequences, FiniteSets, TLC

VARIABLES
    variant,          \* which App of the lineage is running (fixed after Init)
    concurrentRoot,   \* TRUE: React 18 roots, commits deferred; FALSE: legacy, synchronous
    simulationState,  \* useState in App: [altitude, speed, effectiveHeat]
    magnetPower,      \* useState in App
    isRunning,        \* useState in App
    props,            \* what the last committed render handed to the useFrame closures
    shipY,            \* shipRef.current.position.y
    uniforms,         \* materialRef.current.uniforms: [effectiveHeat, rayOriginY]
    frame,            \* number of display frames run so far
    lastStep,         \* what Starship's callback did in the latest frame
    fragment          \* the latest fragment-shader invocation and its gl_FragColor

vars == <<variant, concurrentRoot, simulationState, magnetPower, isRunning,
          props, shipY, uniforms, frame, lastStep, fragment>>

---------------------------------------------------------------------------
(* Bounds of the model *)

\* Frames run in one behaviour.
MaxFrames == 4

\* The slider positions tried are 40*k/MagnetLevels tenths, k = 0..MagnetLevels.
MagnetLevels == 2

\* Frame times tried, in centiseconds: a repeated timestamp, a 50 Hz frame,
\* and frame hitches of 16 s and 60 s (delta is not clamped anywhere).
DtChoices == {0, 2, 1600, 6000}

MagnetChoices == {(40 * k) \div MagnetLevels : k \in 0..MagnetLevels}

---------------------------------------------------------------------------
(* Arithmetic *)

Max(a, b) == IF a >= b THEN a ELSE b

\* floor(a*b/c) without forming a*b: with a = qa*c + ra and b = qb*c + rb,
\* a*b/c = qa*b + ra*qb + ra*rb/c.  a, b >= 0, 0 < c <= 46340 (c*c < 2^31).
MulDiv(a, b, c) ==
    (a \div c) * b + (a % c) * (b \div c) + ((a % c) * (b % c)) \div c

\* floor(a*b/1000000) = floor(floor(a*b/1000)/1000), for b < 2^21
MulDivMillion(a, b) ==
    (a \div 1000000) * b + MulDiv(a % 1000000, b, 1000) \div 1000

\* 2^(-k/8) in Q15, k = 0..8
Pow2Frac == <<32768, 30048, 27554, 25268, 23170, 21247, 19484, 17867, 16384>>

RECURSIVE Pow2(_)
Pow2(n) == IF n = 0 THEN 1 ELSE 2 * Pow2(n - 1)

\* K * exp(-n/d) for K, n >= 0, d > 0: exp(-n/d) = 2^(-n/h) with h = d*ln 2;
\* the integer part of n/h halves K, the fraction is read from Pow2Frac with
\* linear interpolation between eighths.
ExpDecay(K, n, d) ==
    LET h   == (d * 6931) \div 10000
        q   == n \div h
        r   == n % h
        idx == (r * 8) \div h
        rem == (r * 8) % h
        f   == Pow2Frac[idx + 1] - ((Pow2Frac[idx + 1] - Pow2Frac[idx + 2]) * rem) \div h
    IN  IF q >= 31 THEN 0 ELSE MulDiv(K, f, 32768) \div Pow2(q)

---------------------------------------------------------------------------
(* Starship: the trajectory integrator *)

Variants == {"rayMarch", "quadratic", "legacy"}

rho0 == 1225000000

scaleHeight == 8400

\* 0.000000000012, in units of 1e-12
scalingFactor == 12

g == 981

\* cm/s; the legacy Apps floor the speed at 0 instead
terminalVelocity == 20000

SpeedFloorZero(v) == 0

SpeedFloor(v) == IF v = "legacy" THEN 0 ELSE terminalVelocity

\* rho0 * Math.exp(-altitude / scaleHeight)
Density(altitude) == ExpDecay(rho0, altitude, scaleHeight)

\* density * Math.pow(speed, 3), in units of 1000
HeatFlux(altitude, speed) ==
    MulDivMillion(MulDivMillion(MulDivMillion(Density(altitude), speed), speed), speed)

\* 1 - magnetPower / 4: the field cancels all heating at full power
ReductionFactorQuarter(m) == 50 - (m * 5) \div 4

\* 1 + magnetPower / 5: the sign of the shielding term flipped
ReductionFactorAmplify(m) == 50 + m

\* 1 - magnetPower / 2: the field overshoots above 2 T
ReductionFactorHalf(m) == 50 - (m * 5) \div 2

\* 1 - magnetPower / 5, in fiftieths
ReductionFactor(m) == 50 - m

\* heatFlux * reductionFactor * scalingFactor
EffectiveHeat(altitude, speed, m) ==
    MulDiv(MulDiv(HeatFlux(altitude, speed), ReductionFactor(m), 50), scalingFactor, 1000)

\* g + drag deceleration in cm/s^2:
\*   linear     density * 0.81 * speed
\*   quadratic  0.5 * density * speed^2 * 0.81 * (50*10) / 2e5
Deceleration(v, altitude, speed) ==
    IF v = "quadratic"
    THEN g + MulDiv(MulDivMillion(MulDivMillion(Density(altitude), speed), speed), 81, 8000)
    ELSE g + MulDiv(MulDivMillion(Density(altitude), speed), 81, 1000) \div 100

\* a fall that gravity speeds up: speed - (drag - g) * delta
NewSpeedGravityAccelerates(v, altitude, speed, delta) ==
    IF altitude > 0
    THEN Max(speed - MulDiv(Deceleration(v, altitude, speed) - 2 * g, delta, 100), SpeedFloor(v))
    ELSE 0

\* altitude > 0 ? Math.max(speed - deceleration * delta, floor) : 0
NewSpeed(v, altitude, speed, delta) ==
    IF altitude > 0
    THEN Max(speed - MulDiv(Deceleration(v, altitude, speed), delta, 100), SpeedFloor(v))
    ELSE 0

NewAltitudeUnclamped(altitude, newSpeed, delta) ==
    altitude - MulDiv(newSpeed, delta, 10000)

\* a move that also falls by g * delta^2 / 2
NewAltitudeFalling(altitude, newSpeed, delta) ==
    Max(altitude - MulDiv(newSpeed, delta, 10000) - MulDiv(MulDiv(g, delta, 100), delta, 20000), 0)

\* Math.max(altitude - newSpeed * delta, 0)
NewAltitude(altitude, newSpeed, delta) ==
    Max(altitude - MulDiv(newSpeed, delta, 10000), 0)

\* a step that computes the heat after the move, from the values it publishes
StepHeatAfterMove(v, s, m, delta) ==
    LET newSpeed    == NewSpeed(v, s.altitude, s.speed, delta)
        newAltitude == NewAltitude(s.altitude, newSpeed, delta)
    IN  [altitude      |-> newAltitude,
         speed         |-> newSpeed,
         effectiveHeat |-> EffectiveHeat(newAltitude, newSpeed, m)]

\* a step in which the magnetic field also brakes the vehicle
StepMagnetBrakes(v, s, m, delta) ==
    LET newSpeed == IF s.altitude > 0
                    THEN Max(s.speed - MulDiv(Deceleration(v, s.altitude, s.speed) + 10 * m,
                                              delta, 100),
                             SpeedFloor(v))
                    ELSE 0
    IN  [altitude      |-> NewAltitude(s.altitude, newSpeed, delta),
         speed         |-> newSpeed,
         effectiveHeat |-> EffectiveHeat(s.altitude, s.speed, m)]

\* The object handed to setSimulationState by one integration step.
Step(v, s, m, delta) ==
    LET newSpeed == NewSpeed(v, s.altitude, s.speed, delta)
    IN  [altitude      |-> NewAltitude(s.altitude, newSpeed, delta),
         speed         |-> newSpeed,
         effectiveHeat |-> EffectiveHeat(s.altitude, s.speed, m)]

---------------------------------------------------------------------------
(* App *)

InitialSpeed(v) ==
    CASE v = "rayMarch"  -> 722222
      [] v = "quadratic" -> 722200
      [] v = "legacy"    -> 780000

InitialState(v) == [altitude |-> 120000, speed |-> InitialSpeed(v), effectiveHeat |-> 0]

\* shipBottomY prop of <AtmosphereVolume>, a function of the rendered altitude
ShipBottomY(v, altitude) ==
    CASE v = "rayMarch"  -> altitude - 20000 + 5000
      [] v = "quadratic" -> altitude - 25000 + 5000
      [] v = "legacy"    -> altitude - 25000

\* <Canvas camera={{ position: [0, 100, 100] }}>
CameraY == 100000

\* Nothing has been drawn yet.
NoFragment ==
    [shader |-> "none", rayOrigin |-> <<0, 0, 0>>, vPosition |-> <<0, 0, 0>>,
     effectiveHeat |-> 0, discarded |-> FALSE, color |-> <<0, 0, 0>>, alpha |-> 0]

\* The props a render of App hands down, from the hook state at that moment.
Rendered(s, m, r) == [simulationState |-> s, magnetPower |-> m, isRunning |-> r]

\* What AtmosphereVolume's useFrame callback writes, from the props it closed over:
\*   uniforms.effectiveHeat.value = simulationState.effectiveHeat
\*   localCamPos.y -= shipBottomY; uniforms.rayOrigin.value.copy(localCamPos)
Uniforms(v, p) ==
    [effectiveHeat |-> p.simulationState.effectiveHeat,
     rayOriginY    |-> CameraY - ShipBottomY(v, p.simulationState.altitude)]

\* if (materialRef.current): the quadratic-drag App renders the volume with a
\* meshBasicMaterial and attaches materialRef to nothing.
MaterialAttached(v) == v = "rayMarch"

\* A state update commits at once on a legacy root and later on a concurrent one.
Commit(s, m, r) == IF concurrentRoot THEN props ELSE Rendered(s, m, r)

InitFor(vs) ==
    /\ variant \in vs
    /\ concurrentRoot \in BOOLEAN
    /\ simulationState = InitialState(variant)
    /\ magnetPower = 0
    /\ isRunning = TRUE
    /\ props = Rendered(simulationState, magnetPower, isRunning)
    /\ shipY = 0
    /\ uniforms = [effectiveHeat |-> 0, rayOriginY |-> 0]
    /\ frame = 0
    /\ lastStep = "none"
    /\ fragment = NoFragment

Init == InitFor({"rayMarch", "quadratic"})

\* if (!isRunning) return;
NotRunning(p) == ~p.isRunning

GroundedBelowZero(s) == s.altitude < 0

\* if (altitude <= 0) return;
Grounded(s) == s.altitude <= 0

\* Starship's useFrame callback, then AtmosphereVolume's, both run with the
\* props of the last committed render.
Callbacks(delta) ==
    /\ IF NotRunning(props)
       THEN /\ lastStep' = "paused"
            /\ UNCHANGED <<simulationState, shipY, props>>
       ELSE IF Grounded(props.simulationState)
       THEN /\ lastStep' = "grounded"
            /\ UNCHANGED <<simulationState, shipY, props>>
       ELSE /\ lastStep' = "published"
            /\ simulationState' = Step(variant, props.simulationState, props.magnetPower, delta)
            /\ shipY' = simulationState'.altitude
            /\ props' = Commit(simulationState', magnetPower, isRunning)
    /\ uniforms' = IF MaterialAttached(variant) THEN Uniforms(variant, props') ELSE uniforms
    /\ UNCHANGED <<variant, concurrentRoot, magnetPower, isRunning, fragment>>

\* One display frame, counted.
Frame(delta) ==
    /\ frame < MaxFrames
    /\ frame' = frame + 1
    /\ Callbacks(delta)

\* The deferred re-render of a concurrent root commits: the closures are replaced.
Render ==
    /\ concurrentRoot
    /\ props # Rendered(simulationState, magnetPower, isRunning)
    /\ props' = Rendered(simulationState, magnetPower, isRunning)
    /\ UNCHANGED <<variant, concurrentRoot, simulationState, magnetPower, isRunning,
                   shipY, uniforms, frame, lastStep, fragment>>

\* OldApp.js's handler, which resets the state only
handleRestartStateOnly ==
    /\ simulationState' = InitialState(variant)
    /\ props' = Commit(simulationState', magnetPower, isRunning)
    /\ UNCHANGED <<variant, concurrentRoot, magnetPower, isRunning, shipY, uniforms,
                   frame, lastStep, fragment>>

handleRestart ==
    /\ simulationState' = InitialState(variant)
    /\ isRunning' = TRUE
    /\ props' = Commit(simulationState', magnetPower, isRunning')
    /\ UNCHANGED <<variant, concurrentRoot, magnetPower, shipY, uniforms, frame, lastStep,
                   fragment>>

\* <button onClick={() => setIsRunning(false)}>
Stop ==
    /\ isRunning' = FALSE
    /\ props' = Commit(simulationState, magnetPower, isRunning')
    /\ UNCHANGED <<variant, concurrentRoot, simulationState, magnetPower, shipY,
                   uniforms, frame, lastStep, fragment>>

\* a slider handler that also refreshes the displayed heat
setMagnetPowerAndHeat(m) ==
    /\ magnetPower' = m
    /\ simulationState' = [simulationState EXCEPT !.effectiveHeat =
            EffectiveHeat(simulationState.altitude, simulationState.speed, m)]
    /\ props' = Commit(simulationState', magnetPower', isRunning)
    /\ UNCHANGED <<variant, concurrentRoot, isRunning, shipY, uniforms, frame, lastStep,
                   fragment>>

\* min="0" and max="4" of the range input, in tenths
SliderMin == 0

SliderMax == 40

\* Thumb positions a drag or a key press asks for, in tenths: the positions on
\* the track, and positions past either end of it.
DragChoices == MagnetChoices \cup {-10, 55}

\* a range input without min and max attributes
RangeValueUnsanitized(raw) == raw

\* The value a range input reports for a requested position: the HTML value
\* sanitisation of type="range" with min="0" max="4" step="0.1".
RangeValue(raw) ==
    IF raw < SliderMin THEN SliderMin ELSE IF raw > SliderMax THEN SliderMax ELSE raw

\* <input type="range" min="0" max="4" step="0.1" onChange=...>
setMagnetPower(m) ==
    /\ magnetPower' = m
    /\ props' = Commit(simulationState, magnetPower', isRunning)
    /\ UNCHANGED <<variant, concurrentRoot, simulationState, isRunning, shipY,
                   uniforms, frame, lastStep, fragment>>

Next ==
    \/ \E delta \in DtChoices : Frame(delta)
    \/ Render
    \/ handleRestart
    \/ Stop
    \/ \E raw \in DragChoices : setMagnetPower(RangeValue(raw))

Spec == Init /\ [][Next]_vars

---------------------------------------------------------------------------
(* One integration step from any in-flight state *)

\* Entry altitudes (m) and speeds (cm/s) of the step: inside the ranges the
\* integrator keeps (0 < altitude <= 120000, 200 m/s <= speed <= 7222.22 m/s).
StepAltitudes == {1, 100, 8400, 30000, 60000, 120000}

StepSpeeds == {20000, 100000, 400000, 722200, 722222}

\* The App is in flight with the slider anywhere on its track, and one display
\* frame is still to run.
InitStep ==
    /\ variant \in {"rayMarch", "quadratic"}
    /\ concurrentRoot \in BOOLEAN
    /\ simulationState \in [altitude : StepAltitudes, speed : StepSpeeds, effectiveHeat : {0}]
    /\ magnetPower \in SliderMin..SliderMax
    /\ isRunning = TRUE
    /\ props = Rendered(simulationState, magnetPower, isRunning)
    /\ shipY = simulationState.altitude
    /\ uniforms = [effectiveHeat |-> 0, rayOriginY |-> 0]
    /\ frame = MaxFrames - 1
    /\ lastStep = "none"
    /\ fragment = NoFragment

NextStep == \E delta \in DtChoices : Frame(delta)

StepSpec == InitStep /\ [][NextStep]_vars

---------------------------------------------------------------------------
(* The older Apps, whose speed floor is 0 *)

\* Frame times in centiseconds: none, a 50 Hz frame, and a 15 s stall that
\* takes the vehicle from orbit speed into the dense air in one step.
LegacyDtChoices == {0, 2, 1500}

NextLegacy ==
    \/ \E delta \in LegacyDtChoices : Frame(delta)
    \/ Render
    \/ handleRestart
    \/ Stop
    \/ \E raw \in DragChoices : setMagnetPower(RangeValue(raw))

LegacySpec == InitFor({"legacy"}) /\ [][NextLegacy]_vars

---------------------------------------------------------------------------
(* A descent left running: frames without end *)

\* Frame times of a descent to the ground, in centiseconds, all positive.
LiveDtChoices == {800, 1600, 6000}

\* One display frame of a run whose frames are not counted.
Tick(delta) == Callbacks(delta) /\ UNCHANGED frame

NextLive ==
    \/ \E delta \in LiveDtChoices : Tick(delta)
    \/ Render

\* The render loop calls the frame callbacks for as long as the canvas is
\* mounted, and React commits a render it has scheduled.
LiveSpec ==
    /\ Init
    /\ [][NextLive]_vars
    /\ WF_vars(\E delta \in LiveDtChoices : Tick(delta))
    /\ WF_vars(Render)

---------------------------------------------------------------------------
(* AtmosphereMaterial: the fragment shaders                                *)
(*                                                                         *)
(* Ray geometry is in whole scene units.  The ray direction is kept        *)
(* unnormalised, dir = vPosition - rayOrigin: rayDir = dir / |dir|, so a   *)
(* distance t along rayDir is the parameter t / |dir| along dir, and       *)
(* |dir| > 0 scales t0s, t1s, tmin, tmax and dt alike; the comparisons and *)
(* the sample points rayOrigin + rayDir * t are unchanged.  Slab times are *)
(* exact fractions; sample positions are in 1e-3 scene units, local heat   *)
(* in 1e-2 K and colour channels in units of 1 / ColorOne.                 *)

baseTemp == 300

plasmaThreshold == 3000

\* in 1e-3 scene units
hDecayScale == 3000

vDecayScale == 5000

boxHalfSize == <<50, 5, 50>>

steps == 200

\* the value 1.0 of a colour channel: (plasmaThreshold - baseTemp) in 1e-2 K, times 255
ColorOne == (plasmaThreshold - baseTemp) * 100 * 255

\* vec3(128.0/255.0, 0.0, 128.0/255.0)
PlasmaColor == <<(ColorOne \div 255) * 128, 0, (ColorOne \div 255) * 128>>

\* A float that is a fraction n/d (d > 0), +infinity (1/0), -infinity (-1/0)
\* or NaN (0/0).
PosInf == [n |-> 1, d |-> 0]

NegInf == [n |-> -1, d |-> 0]

NaN == [n |-> 0, d |-> 0]

IsNaN(a) == a.n = 0 /\ a.d = 0

\* a < b; every comparison with NaN is false
Lt(a, b) ==
    IF IsNaN(a) \/ IsNaN(b) THEN FALSE
    ELSE IF a.d = 0 /\ b.d = 0 THEN a.n < b.n
    ELSE a.n * b.d < b.n * a.d

\* GLSL min(x, y): y if y < x, otherwise x
FMin(x, y) == IF Lt(y, x) THEN y ELSE x

\* GLSL max(x, y): y if x < y, otherwise x
FMax(x, y) == IF Lt(x, y) THEN y ELSE x

\* a division by zero that yields no infinity
InvDirFlushed(di) ==
    IF di = 0 THEN [n |-> 0, d |-> 1]
    ELSE IF di > 0 THEN [n |-> 1, d |-> di] ELSE [n |-> -1, d |-> -di]

\* 1.0 / rayDir for one component: +infinity for a zero component
InvDir(di) ==
    IF di = 0 THEN PosInf
    ELSE IF di > 0 THEN [n |-> 1, d |-> di] ELSE [n |-> -1, d |-> -di]

\* k * q for an exact k; 0 * infinity has no defined value: undef is what
\* the build yields for it.
Times(k, q, undef) ==
    IF q.d = 0
    THEN IF k = 0 THEN undef ELSE IF k > 0 THEN q ELSE [n |-> -q.n, d |-> 0]
    ELSE [n |-> k * q.n, d |-> q.d]

\* What a build may yield for 0 * infinity.
UndefChoices == {NaN, NegInf, PosInf, [n |-> 0, d |-> 1]}

\* The ray lies in the plane of a box face it is parallel to: (+-boxHalfSize -
\* rayOrigin) * invDir is 0 * infinity on that axis.
Grazing(o, p) ==
    \E i \in 1..3 : p[i] = o[i] /\ (o[i] = boxHalfSize[i] \/ o[i] = -boxHalfSize[i])

\* The slabs method: [tmin, tmax] and the discard test.
Slab(o, p, undef) ==
    LET t0s(i) == Times(-boxHalfSize[i] - o[i], InvDir(p[i] - o[i]), undef)
        t1s(i) == Times(boxHalfSize[i] - o[i], InvDir(p[i] - o[i]), undef)
        tsmaller(i) == FMin(t0s(i), t1s(i))
        tbigger(i)  == FMax(t0s(i), t1s(i))
        tmin == FMax(FMax(tsmaller(1), tsmaller(2)), tsmaller(3))
        tmax == FMin(FMin(tbigger(1), tbigger(2)), tbigger(3))
    IN  [tmin |-> tmin, tmax |-> tmax,
         discard |-> Lt(tmax, [n |-> 0, d |-> 1]) \/ Lt(tmax, tmin)]

RECURSIVE SqrtBetween(_, _, _)
SqrtBetween(n, lo, hi) ==
    IF lo >= hi THEN lo
    ELSE LET mid == (lo + hi + 1) \div 2
         IN  IF mid * mid <= n THEN SqrtBetween(n, mid, hi) ELSE SqrtBetween(n, lo, mid - 1)

\* length(samplePos.xz), positions in 1e-3 units (squared in 1e-2 units)
LengthXZ(x, z) ==
    LET xc == (IF x < 0 THEN -x ELSE x) \div 10
        zc == (IF z < 0 THEN -z ELSE z) \div 10
    IN  10 * SqrtBetween(xc * xc + zc * zc, 0, 46340)

\* K * exp(-n/d), also for the n < 0 that rounding of t produces just outside
\* the box, where exp(-n/d) = 1 - n/d to first order.
ExpFactor(K, n, d) == IF n >= 0 THEN ExpDecay(K, n, d) ELSE K + MulDiv(K, -n, d)

\* effectiveHeat * horizontalFactor * verticalFactor (* 1e6), in 1e-2 K
LocalHeat(heat, x, y, z) ==
    ExpFactor(ExpFactor(heat * 100, LengthXZ(x, z), hDecayScale), y + 5000, vDecayScale)

\* a ramp that takes the plasma colour only above the threshold
ColorRampStrict(localHeat) ==
    IF localHeat > (plasmaThreshold - baseTemp) * 100
    THEN PlasmaColor
    ELSE <<localHeat * 255, 0, ColorOne - localHeat * 255>>

\* a ramp over temperature / plasmaThreshold, baseTemp not subtracted
ColorRampFromZero(localHeat) ==
    IF baseTemp * 100 + localHeat >= plasmaThreshold * 100
    THEN PlasmaColor
    ELSE LET tVal == MulDiv(baseTemp * 100 + localHeat, ColorOne \div 100, plasmaThreshold)
         IN  <<tVal, 0, ColorOne - tVal>>

\* temperature = baseTemp + localHeat * 1e6, and the colour of that temperature:
\*   temperature >= plasmaThreshold ? plasma colour : vec3(tVal, 0, 1 - tVal)
ColorRamp(localHeat) ==
    IF baseTemp * 100 + localHeat >= plasmaThreshold * 100
    THEN PlasmaColor
    ELSE <<localHeat * 255, 0, ColorOne - localHeat * 255>>

\* a marcher that keeps the colour of the sample it visited last
AccumulateLast(maxColor, sampleColor) == sampleColor

\* maxColor = max(maxColor, sampleColor), per channel
Accumulate(maxColor, sampleColor) ==
    <<Max(maxColor[1], sampleColor[1]), Max(maxColor[2], sampleColor[2]),
      Max(maxColor[3], sampleColor[3])>>

\* a march whose last sample is the exit point: dt = (tmax - tmin) / (steps - 1)
MarchRangeInclusive(slab) ==
    LET tmin == (slab.tmin.n * 1000000) \div slab.tmin.d
        tmax == (slab.tmax.n * 1000000) \div slab.tmax.d
    IN  [tmin |-> tmin, dt |-> (tmax - tmin) \div (steps - 1)]

\* tmin and dt = (tmax - tmin) / steps of a ray that is not discarded, in 1e-6
MarchRange(slab) ==
    LET tmin == (slab.tmin.n * 1000000) \div slab.tmin.d
        tmax == (slab.tmax.n * 1000000) \div slab.tmax.d
    IN  [tmin |-> tmin, dt |-> (tmax - tmin) \div steps]

\* samplePos = rayOrigin + rayDir * t for t = tmin + dt * i, in 1e-3 units
SamplePos(o, p, range, i) ==
    LET t == range.tmin + range.dt * i
    IN  [k \in 1..3 |-> o[k] * 1000 + ((p[k] - o[k]) * t) \div 1000]

SampleColor(heat, o, p, range, i) ==
    LET pos == SamplePos(o, p, range, i)
    IN  ColorRamp(LocalHeat(heat, pos[1], pos[2], pos[3]))

\* The loop of the ray-marcher over the sample indices order[lo..hi], in that
\* order, entered with maxColor.  The range is walked in two halves, the
\* second entered with the value the first ended with (bound as first, so
\* that it is computed before the second half starts): the same sequence of
\* updates as the loop's.
RECURSIVE MarchFold(_, _, _, _, _, _, _, _)
MarchFold(heat, o, p, range, order, maxColor, lo, hi) ==
    IF lo = hi
    THEN Accumulate(maxColor, SampleColor(heat, o, p, range, order[lo]))
    ELSE LET mid == (lo + hi) \div 2
         IN  CHOOSE last \in
                 {MarchFold(heat, o, p, range, order, first, mid + 1, hi) :
                     first \in {MarchFold(heat, o, p, range, order, maxColor, lo, mid)}} : TRUE

\* vec3 maxColor = vec3(0.0); the loop; the result is maxColor
MarchOver(heat, o, p, range, order) ==
    MarchFold(heat, o, p, range, order, <<0, 0, 0>>, 1, Len(order))

\* for (int i = 0; i < 200; i++)
LoopOrder == [k \in 1..steps |-> k - 1]

\* vPosition - rayOrigin is the zero vector: normalize() divides it by its
\* length 0 and has no defined value.
Degenerate(o, p) == p = o

\* What the march leaves in gl_FragColor when t is not a number: every sample
\* position is NaN, temperature >= plasmaThreshold is false, the ramp's colour
\* is NaN and max(maxColor, NaN) keeps vec3(0.0).
NotANumberColor == <<0, 0, 0>>

\* main() of the ray-marching fragment shader.  For the zero vector undef is
\* what the build's normalize() yields: NaN in every component, or (any other
\* choice) the zero vector itself.
MarchMain(heat, o, p, undef) ==
    LET slab == Slab(o, p, undef)
        output(discarded, color, alpha) ==
            [shader |-> "march", rayOrigin |-> o, vPosition |-> p, effectiveHeat |-> heat,
             discarded |-> discarded, color |-> color, alpha |-> alpha]
    IN  IF Degenerate(o, p) /\ IsNaN(undef)
        THEN output(FALSE, NotANumberColor, 4)
        ELSE IF slab.discard
        THEN output(TRUE, <<0, 0, 0>>, 0)
        ELSE IF slab.tmin.d = 0 \/ slab.tmax.d = 0
        THEN output(FALSE, NotANumberColor, 4)
        ELSE output(FALSE, MarchOver(heat, o, p, MarchRange(slab), LoopOrder), 4)

\* main() of the surface fragment shader: the heat field of the horizontal
\* distance at the fragment itself, alpha 0.8
SurfaceMain(heat, p) ==
    [shader |-> "surface", rayOrigin |-> <<0, 0, 0>>, vPosition |-> p, effectiveHeat |-> heat,
     discarded |-> FALSE,
     color |-> ColorRamp(ExpFactor(heat * 100, LengthXZ(p[1] * 1000, p[3] * 1000), hDecayScale)),
     alpha |-> 8]

\* Where OrbitControls has put the camera, (x, z); [0, 100, 100] at startup.
CameraChoices == {<<0, 100>>, <<0, 0>>, <<30, 40>>}

\* Fragments of the ray-marched mesh, a cube of side 100 drawn on both sides.
CubePoints ==
    {p \in {-50, 0, 30} \X {-50, -5, 3, 50} \X {-50, 0, 50} :
        \E i \in 1..3 : p[i] = 50 \/ p[i] = -50}

\* Fragments of the surface-shaded mesh, a 100 x 10 x 100 box.
BoxPoints ==
    {p \in {-50, 0, 3, 50} \X {-5, 0, 5} \X {-50, 0, 50} :
        p[1] \in {-50, 50} \/ p[2] \in {-5, 5} \/ p[3] \in {-50, 50}}

\* Altitudes at which the volume is drawn (whole scene units after / 1000):
\* the start (camera level with the box bottom), the camera inside the box,
\* the camera level with the top of the cube, and the ground.
ShaderAltitudes == {120000, 115000, 65000, 0}

\* effectiveHeat values handed to the shader, in 1e-6: none, a first step's,
\* both sides of the plasma threshold at the hottest point, and the peak of
\* a descent.
HeatChoices == {0, 3, 2699, 2700, 467339}

\* The App after some frames, the uniforms written from the rendered state.
InitShader ==
    /\ variant = "rayMarch"
    /\ concurrentRoot = FALSE
    /\ simulationState \in [altitude : ShaderAltitudes, speed : {InitialSpeed(variant)},
                            effectiveHeat : HeatChoices]
    /\ magnetPower = 0
    /\ isRunning = TRUE
    /\ props = Rendered(simulationState, magnetPower, isRunning)
    /\ shipY = simulationState.altitude
    /\ uniforms = Uniforms(variant, props)
    /\ frame = MaxFrames
    /\ lastStep = "published"
    /\ fragment = NoFragment

\* The GPU runs the ray-marching shader for one fragment of the cube.  A
\* fragment's colour depends on no other fragment, so a behaviour draws one.
MarchFragment(cam, p) ==
    LET o == <<cam[1], uniforms.rayOriginY \div 1000, cam[2]>>
    IN  /\ fragment = NoFragment
        /\ \E undef \in (IF Grazing(o, p) \/ Degenerate(o, p) THEN UndefChoices ELSE {NaN}) :
              fragment' = MarchMain(uniforms.effectiveHeat, o, p, undef)
        /\ UNCHANGED <<variant, concurrentRoot, simulationState, magnetPower, isRunning,
                       props, shipY, uniforms, frame, lastStep>>

\* The GPU runs the surface shader for one fragment of the box.
SurfaceFragment(p) ==
    /\ fragment = NoFragment
    /\ fragment' = SurfaceMain(uniforms.effectiveHeat, p)
    /\ UNCHANGED <<variant, concurrentRoot, simulationState, magnetPower, isRunning,
                   props, shipY, uniforms, frame, lastStep>>

NextShader ==
    \/ \E cam \in CameraChoices, p \in CubePoints : MarchFragment(cam, p)
    \/ \E p \in BoxPoints : SurfaceFragment(p)

ShaderSpec == InitShader /\ [][NextShader]_vars

---------------------------------------------------------------------------
(* The integrator feeding the shaders: two frames, then a fragment *)

\* The camera over the volume, and the fragments drawn after the frames: on
\* the axis of the volume and off it.
DrawCameras == {<<0, 0>>}

DrawCubePoints == {<<0, 50, 0>>, <<30, -5, 50>>}

DrawBoxPoints == {<<0, 5, 0>>}

\* The ray-marching App at startup on a root that commits at once, two
\* display frames to run.
InitDraw ==
    /\ variant = "rayMarch"
    /\ concurrentRoot = FALSE
    /\ simulationState = InitialState(variant)
    /\ magnetPower = 0
    /\ isRunning = TRUE
    /\ props = Rendered(simulationState, magnetPower, isRunning)
    /\ shipY = 0
    /\ uniforms = [effectiveHeat |-> 0, rayOriginY |-> 0]
    /\ frame = MaxFrames - 2
    /\ lastStep = "none"
    /\ fragment = NoFragment

NextDraw ==
    \/ \E delta \in DtChoices : Frame(delta)
    \/ \E raw \in DragChoices : setMagnetPower(RangeValue(raw))
    \/ \E cam \in DrawCameras, p \in DrawCubePoints : MarchFragment(cam, p)
    \/ \E p \in DrawBoxPoints : SurfaceFragment(p)

DrawSpec == InitDraw /\ [][NextDraw]_vars

---------------------------------------------------------------------------
(* Properties *)

\* A display frame ran in this step.
FrameRan == frame' = frame + 1

\* Starship's callback got past both early returns in this step's frame.
Integrated == FrameRan /\ ~NotRunning(props) /\ ~Grounded(props.simulationState)

\* C1: once altitude is 0 the published speed is 0 as well (the terminal state
\* is (altitude, speed) = (0, 0)).
C1_TerminalSpeedZero ==
    simulationState.altitude = 0 => simulationState.speed = 0

\* C2: a step entered with altitude > 0 publishes a speed of at least
\* terminalVelocity, so every state with altitude > 0 has speed >= 200 m/s.
C2_SpeedAtLeastTerminal ==
    /\ lastStep = "published" => simulationState.speed >= 20000
    /\ simulationState.altitude > 0 => simulationState.speed >= 20000
    /\ props.simulationState.altitude > 0 => props.simulationState.speed >= 20000

\* C2 witness: a step has published an airborne state with the floor applied.
C2_Witness ==
    /\ lastStep = "published"
    /\ simulationState.altitude > 0
    /\ simulationState.speed = 20000

\* C3: a frame whose step is entered with altitude <= 0 publishes nothing:
\* altitude, speed and effectiveHeat stay exactly as they were.
C3_GroundedStepPublishesNothing ==
    [][(FrameRan /\ props.simulationState.altitude <= 0)
          => simulationState' = simulationState]_vars

\* C3 witness: a frame has run against a state that sits on the ground.
C3_Witness ==
    /\ lastStep = "grounded"
    /\ props.isRunning
    /\ props.simulationState.altitude = 0
    /\ simulationState = props.simulationState

\* C4: altitude is never negative, and a step publishes an altitude between 0
\* and the altitude it was entered with, whatever delta is.
C4_AltitudeWithinBounds ==
    /\ simulationState.altitude >= 0
    /\ [][/\ simulationState'.altitude >= 0
          /\ Integrated => simulationState'.altitude <= props.simulationState.altitude]_vars

\* C4 witness: the first frame overshot the ground and was clamped to 0.
C4_Witness ==
    /\ frame = 1
    /\ lastStep = "published"
    /\ simulationState.altitude = 0

\* C5: while isRunning is false a frame leaves SimulationState unchanged and
\* feeds the renderer that frozen state.
C5_PausedFramesFreezeState ==
    [][(FrameRan /\ ~isRunning /\ variant = "rayMarch")
          => /\ simulationState' = simulationState
             /\ uniforms'.effectiveHeat = simulationState.effectiveHeat]_vars

\* C6: in a frame in which the integrator runs, the ray-march of that frame
\* reads the effectiveHeat and the volume offset this frame's step produced.
C6_RenderSeesThisFramesStep ==
    [][(Integrated /\ variant = "rayMarch")
          => /\ uniforms'.effectiveHeat = simulationState'.effectiveHeat
             /\ uniforms'.rayOriginY =
                   CameraY - ShipBottomY(variant, simulationState'.altitude)]_vars

\* C7: while isRunning is true and altitude > 0, every frame advances
\* SimulationState by one step taken from the state the preceding frame
\* published.
C7_EachFrameStepsFromLatestState ==
    [][(FrameRan /\ isRunning /\ simulationState.altitude > 0)
          => \E delta \in DtChoices, m \in 0..40 :
                simulationState' = Step(variant, simulationState, m, delta)]_vars

\* C8: at startup and right after every Restart, SimulationState is the
\* initial record (altitude 120000, speed 7222.22, effectiveHeat 0) and
\* isRunning is true (the Apps that start at 7222.22 m/s).
C8_RestartRestoresInitialRecord ==
    /\ variant = "rayMarch"
          => /\ simulationState = [altitude |-> 120000, speed |-> 722222, effectiveHeat |-> 0]
             /\ isRunning = TRUE
    /\ [][(handleRestart /\ variant = "rayMarch")
             => /\ simulationState' =
                      [altitude |-> 120000, speed |-> 722222, effectiveHeat |-> 0]
                /\ isRunning' = TRUE]_vars

\* C8 witness: Restart was pressed on a stopped simulation that had landed.
C8_Witness ==
    /\ variant = "rayMarch"
    /\ lastStep = "paused"
    /\ uniforms.rayOriginY = CameraY - ShipBottomY(variant, 0)
    /\ isRunning
    /\ simulationState = [altitude |-> 120000, speed |-> 722222, effectiveHeat |-> 0]

\* C9 as stated: the integrator's frame step is the only writer of
\* SimulationState; no user control handler writes it.
C9_OnlyIntegratorWrites ==
    [][simulationState' # simulationState => Integrated]_vars

\* C9 amended: SimulationState is written only by the integrator's frame step
\* and by the Restart handler; Stop and the magnetPower slider never write it.
C9_IntegratorAndRestartWrite ==
    [][simulationState' # simulationState
          => \/ Integrated
             \/ /\ simulationState' = InitialState(variant)
                /\ isRunning' = TRUE
                /\ UNCHANGED <<magnetPower, frame>>]_vars

\* C9 witness: Restart has overwritten a state the integrator had published.
C9_Witness ==
    /\ lastStep = "published"
    /\ shipY < 120000
    /\ simulationState = InitialState(variant)

\* C11: the magnetPower the integrator reads (the prop its callback closed
\* over) and the hook state it is rendered from are in [0, 4] in every
\* reachable state, whatever position the slider was asked for.
C11_MagnetPowerInRange ==
    /\ magnetPower \in 0..40
    /\ props.magnetPower \in 0..40

\* C11 witness: a step has integrated with the slider at its upper end.
C11_Witness ==
    /\ lastStep = "published"
    /\ props.magnetPower = 40
    /\ simulationState.effectiveHeat > 0
    /\ simulationState.altitude > 0

C13_HeatNonIncreasingInMagnetPower ==
    [][Integrated =>
          LET a == props.simulationState.altitude
              s == props.simulationState.speed
          IN  /\ \A m \in 0..40 :
                    /\ m <= props.magnetPower
                          => EffectiveHeat(a, s, m) >= simulationState'.effectiveHeat
                    /\ m >= props.magnetPower
                          => EffectiveHeat(a, s, m) <= simulationState'.effectiveHeat
              /\ \A m \in 0..39 : EffectiveHeat(a, s, m) >= EffectiveHeat(a, s, m + 1)]_vars

\* C13 witness: a step at half power published strictly less heat than it
\* would have at 0 and strictly more than it would have at 4.
C13_Witness ==
    /\ concurrentRoot
    /\ lastStep = "published"
    /\ props.magnetPower = 20
    /\ simulationState.effectiveHeat <
           EffectiveHeat(props.simulationState.altitude, props.simulationState.speed, 0)
    /\ simulationState.effectiveHeat >
           EffectiveHeat(props.simulationState.altitude, props.simulationState.speed, 40)

\* C14: the effectiveHeat a step publishes is plasmaFluxDensity *
\* reductionFactor * 1.2e-11 with plasmaFluxDensity = density * speed^3 and
\* density = 1.225 * exp(-altitude/8400), altitude and speed being those the
\* step was entered with (not the ones it publishes).
C14_HeatFromEntryState ==
    [][Integrated =>
          LET altitude          == props.simulationState.altitude
              speed             == props.simulationState.speed
              density           == ExpDecay(1225000000, altitude, 8400)
              plasmaFluxDensity ==
                  MulDivMillion(MulDivMillion(MulDivMillion(density, speed), speed), speed)
              reductionFactor   == 50 - props.magnetPower
          IN  simulationState'.effectiveHeat =
                  MulDiv(MulDiv(plasmaFluxDensity, reductionFactor, 50), 12, 1000)]_vars

\* C14 witness: a 16 s step from 30 km at 4000 m/s moved the vehicle and
\* published a heat that is not the heat of the state it arrived in.
C14_Witness ==
    /\ concurrentRoot
    /\ lastStep = "published"
    /\ props.simulationState.altitude = 30000
    /\ props.simulationState.speed = 400000
    /\ simulationState.altitude < 30000
    /\ simulationState.altitude > 0
    /\ simulationState.effectiveHeat > 0
    /\ simulationState.effectiveHeat #
           EffectiveHeat(simulationState.altitude, simulationState.speed, props.magnetPower)

\* The ray from o through p meets the box: some point o + s * (p - o), s >= 0,
\* has every coordinate within boxHalfSize.  On an axis the ray moves along
\* it is inside the slab for s between lo/|d| and hi/|d|; on an axis it does
\* not move along, it is inside the slab always or never.
RayMeetsBox(o, p) ==
    LET d(i)   == p[i] - o[i]
        abs(i) == IF d(i) < 0 THEN -d(i) ELSE d(i)
        lo(i)  == IF d(i) > 0 THEN -boxHalfSize[i] - o[i] ELSE o[i] - boxHalfSize[i]
        hi(i)  == IF d(i) > 0 THEN boxHalfSize[i] - o[i] ELSE o[i] + boxHalfSize[i]
    IN  /\ \A i \in 1..3 : d(i) = 0 => (-boxHalfSize[i] <= o[i] /\ o[i] <= boxHalfSize[i])
        /\ \A i \in 1..3 : d(i) # 0 => hi(i) >= 0
        /\ \A i, j \in 1..3 :
              (d(i) # 0 /\ d(j) # 0) => lo(i) * abs(j) <= hi(j) * abs(i)

ReverseOrder == [k \in 1..steps |-> steps - k]

RotatedOrder == [k \in 1..steps |-> (k + 66) % steps]

\* C17: the colour the ray-marcher returns is the per-channel maximum over
\* the colours of its samples, and visiting the samples in another order
\* (reversed, rotated) returns the same colour.
C17_MarchIsOrderIndependentMax ==
    (fragment.shader = "march" /\ ~fragment.discarded)
        => LET heat  == fragment.effectiveHeat
               o     == fragment.rayOrigin
               p     == fragment.vPosition
               range == MarchRange(Slab(o, p, NaN))
           IN  (~Grazing(o, p) /\ ~Degenerate(o, p))
                  => /\ \A c \in 1..3 :
                           /\ \A i \in 0..(steps - 1) :
                                 fragment.color[c] >= SampleColor(heat, o, p, range, i)[c]
                           /\ \E i \in 0..(steps - 1) :
                                 fragment.color[c] = SampleColor(heat, o, p, range, i)[c]
                     /\ fragment.color = MarchOver(heat, o, p, range, ReverseOrder)
                     /\ fragment.color = MarchOver(heat, o, p, range, RotatedOrder)

\* C17 witness: a marched ray whose colour is no single sample's colour: its
\* red comes from the hottest sample and its blue from the coldest one (on
\* the ramp red + blue is exactly 1).
C17_Witness ==
    /\ fragment.shader = "march"
    /\ ~fragment.discarded
    /\ fragment.color[1] > 0
    /\ fragment.color[1] + fragment.color[3] > ColorOne

\* C18: with effectiveHeat = 0 the heat field is pure blue (0, 0, 1) at every
\* point of the volume, and every fragment that is drawn, marched along a ray
\* or surface-shaded, is exactly (0, 0, 1), never the plasma colour.
C18_ZeroHeatIsPureBlue ==
    /\ \A x \in {-50000, -1, 0, 3000, 50000}, y \in {-5000, 0, 5000}, z \in {-50000, 0, 50000} :
          ColorRamp(LocalHeat(0, x, y, z)) = <<0, 0, ColorOne>>
    /\ (/\ fragment.shader # "none"
        /\ fragment.effectiveHeat = 0
        /\ ~fragment.discarded
        /\ ~Degenerate(fragment.rayOrigin, fragment.vPosition))
          => fragment.color = <<0, 0, ColorOne>>

\* C18 witness: a ray through the box was marched with effectiveHeat = 0.
C18_Witness ==
    /\ fragment.shader = "march"
    /\ fragment.effectiveHeat = 0
    /\ ~fragment.discarded
    /\ fragment.color = <<0, 0, ColorOne>>

\* C19: a temperature >= 3000 maps to exactly (128/255, 0, 128/255) and a
\* temperature < 3000 to (t, 0, 1 - t) with t = (temperature - 300) / 2700,
\* nothing in between: checked on the temperature of every surface fragment
\* and of the first, middle and last sample of every marched ray.
C19_RampBreaksAtPlasmaThreshold ==
    LET Expected(localHeat) ==
            IF 30000 + localHeat >= 300000
            THEN <<34560000, 0, 34560000>>
            ELSE <<localHeat * 255, 0, 68850000 - localHeat * 255>>
        heat == fragment.effectiveHeat
        o    == fragment.rayOrigin
        p    == fragment.vPosition
    IN  /\ fragment.shader = "surface"
              => fragment.color =
                    Expected(ExpFactor(heat * 100, LengthXZ(p[1] * 1000, p[3] * 1000), 3000))
        /\ (/\ fragment.shader = "march"
            /\ ~fragment.discarded
            /\ ~Grazing(o, p)
            /\ ~Degenerate(o, p))
              => \A i \in {0, 100, 199} :
                    LET pos == SamplePos(o, p, MarchRange(Slab(o, p, NaN)), i)
                    IN  SampleColor(heat, o, p, MarchRange(Slab(o, p, NaN)), i) =
                            Expected(LocalHeat(heat, pos[1], pos[2], pos[3]))

\* C19 witness: a surface fragment on the axis, where the temperature is
\* exactly 3000, has the plasma colour.
C19_Witness ==
    /\ fragment.shader = "surface"
    /\ fragment.effectiveHeat = 2700
    /\ fragment.vPosition[1] = 0
    /\ fragment.vPosition[3] = 0
    /\ fragment.color = <<34560000, 0, 34560000>>

\* C20: in every frame, also right after Restart, Stop and touchdown, the
\* vehicle's rendered position and the volume's offset are the same vertical
\* distance apart (15 scene units in the ray-marching App), and the ray
\* origin handed to the marcher is the camera position minus that offset.
C20_VolumeGluedToVehicle ==
    [][(FrameRan /\ variant = "rayMarch")
          => /\ shipY' - ShipBottomY(variant, props'.simulationState.altitude) = 15000
             /\ uniforms'.rayOriginY =
                   CameraY - ShipBottomY(variant, props'.simulationState.altitude)]_vars

\* C21: the ray-marcher guards against a zero-length ray direction: for a
\* fragment at the ray origin it does not normalise the zero vector and
\* writes no colour computed from it (the fragment is dropped).
C21_DegenerateRayGuarded ==
    (fragment.shader = "march" /\ Degenerate(fragment.rayOrigin, fragment.vPosition))
        => (fragment.discarded /\ fragment.alpha = 0)

\* C22: the trajectory does not depend on magnetPower.  The altitude and
\* speed a frame publishes are the ones the same frame would have published
\* with the slider at either end of its track, and a slider move changes
\* neither the state, nor isRunning, nor the state the next frame reads: two
\* runs with the same frames, commits, Stops and Restarts and different
\* slider moves publish the same (altitude, speed) frame by frame, and only
\* effectiveHeat may differ.
C22_TrajectoryIgnoresMagnetPower ==
    [][/\ Integrated
          => \E delta \in DtChoices :
                \A m \in {SliderMin, SliderMax} :
                   LET other == Step(variant, props.simulationState, m, delta)
                   IN  /\ simulationState'.altitude = other.altitude
                       /\ simulationState'.speed = other.speed
       /\ magnetPower' # magnetPower
          => /\ simulationState' = simulationState
             /\ isRunning' = isRunning
             /\ props'.simulationState = props.simulationState
             /\ props'.isRunning = props.isRunning
             /\ frame' = frame]_vars

\* C22 witness: the first frame ran with the shield at full power and
\* published the altitude and speed of the unshielded step, with less heat.
C22_Witness ==
    LET off == Step(variant, InitialState(variant), SliderMin, 1600)
    IN  /\ lastStep = "published"
        /\ magnetPower = SliderMax
        /\ simulationState.altitude = off.altitude
        /\ simulationState.speed = off.speed
        /\ simulationState.effectiveHeat < off.effectiveHeat

\* C23: with the terminal-velocity floor, a simulation that stays running
\* and keeps receiving frames with dt bounded below by a positive value
\* eventually reaches altitude 0, and once the state the App renders has
\* altitude 0 no frame changes the state any more.
C23_DescentTerminates ==
    /\ <>[](props.simulationState.altitude = 0 /\ simulationState = props.simulationState)
    /\ [][props.simulationState.altitude = 0
             => /\ simulationState' = simulationState
                /\ props'.simulationState = props.simulationState]_vars

\* C23 witness: the vehicle is on the ground at terminal velocity and a frame
\* has run since without publishing.
C23_Witness ==
    /\ props.simulationState.altitude = 0
    /\ simulationState.altitude = 0
    /\ simulationState.speed = terminalVelocity
    /\ lastStep = "grounded"

\* The vehicle has stopped in mid-air.
Hovering(s) == s.speed = 0 /\ s.altitude > 0

\* C24: in the Apps whose speed floor is 0, once the speed has reached 0 at
\* an altitude > 0 every later step republishes the same altitude with speed
\* 0: the vehicle hovers, and the steps never bring it to altitude 0.
C24_LegacyVehicleHovers ==
    [][(Integrated /\ Hovering(props.simulationState))
          => /\ simulationState'.altitude = props.simulationState.altitude
             /\ simulationState'.speed = 0
             /\ Hovering(simulationState')]_vars

\* C24 witness: a step was taken from a hovering state: the published state
\* hovers too, and its heat, computed from speed 0, is 0.
C24_Witness ==
    /\ variant = "legacy"
    /\ lastStep = "published"
    /\ Hovering(props.simulationState)
    /\ Hovering(simulationState)
    /\ simulationState.altitude < 30000
    /\ simulationState.effectiveHeat = 0

C26_RestartNeverLost ==
    [][(FrameRan /\ simulationState = InitialState(variant) /\ simulationState' # simulationState)
          => \E delta \in DtChoices, m \in MagnetChoices :
                simulationState' = Step(variant, InitialState(variant), m, delta)]_vars

\* C27: Stop takes effect at once.  Once the Stop click has set isRunning to
\* false, no frame callback, also none that closed over isRunning = true
\* before the click, publishes a new SimulationState until Restart.
C27_StopTakesEffectAtOnce ==
    [][(FrameRan /\ ~isRunning) => (simulationState' = simulationState /\ shipY' = shipY)]_vars

\* C28: isRunning becomes true only through Restart, which also resets the
\* state, and so the paused trajectory is never continued: the first change
\* of the state after a Stop is the reset to the initial record.
C28_OnlyRestartResumes ==
    [][/\ (~isRunning /\ isRunning')
          => simulationState' = InitialState(variant)
       /\ (~isRunning /\ simulationState' # simulationState)
          => (simulationState' = InitialState(variant) /\ isRunning')]_vars

\* C29: for every ray that meets the box the march takes exactly 200 samples,
\* at t = tmin + i * (tmax - tmin) / 200 for i = 0..199.  Every sample lies
\* inside the box on all three axes (to the 1e-3 the positions are kept to),
\* the first one is the point where the ray enters the box, also when that
\* point is behind the camera (tmin < 0), and the exit point tmax is never
\* sampled.
C29_SamplesInsideBox ==
    (/\ fragment.shader = "march"
     /\ ~fragment.discarded
     /\ ~Grazing(fragment.rayOrigin, fragment.vPosition)
     /\ ~Degenerate(fragment.rayOrigin, fragment.vPosition))
        => LET o     == fragment.rayOrigin
               p     == fragment.vPosition
               slab  == Slab(o, p, NaN)
               range == MarchRange(slab)
               tmax  == (slab.tmax.n * 1000000) \div slab.tmax.d
               first == SamplePos(o, p, range, LoopOrder[1])
               abs(x) == IF x < 0 THEN -x ELSE x
           IN  /\ Len(LoopOrder) = 200
               /\ \A k \in 1..200 : LoopOrder[k] = k - 1
               /\ range.tmin * slab.tmin.d <= slab.tmin.n * 1000000
               /\ slab.tmin.n * 1000000 < (range.tmin + 1) * slab.tmin.d
               /\ tmax - 200 < range.tmin + range.dt * 200
               /\ \A k \in 1..200 :
                     /\ range.tmin + range.dt * LoopOrder[k] < tmax
                     /\ range.tmin + range.dt * (LoopOrder[k] + 1) <= tmax
                     /\ \A c \in 1..3 :
                           abs(SamplePos(o, p, range, LoopOrder[k])[c])
                               <= boxHalfSize[c] * 1000 + 1
               /\ \E c \in 1..3 : abs(abs(first[c]) - boxHalfSize[c] * 1000) <= 1
               /\ fragment.color = MarchOver(fragment.effectiveHeat, o, p, range, LoopOrder)

\* C29, amended: for every ray that meets the box the march takes exactly 200 samples,
\* at t = tmin + i * (tmax - tmin) / 200 for i = 0..199.  Every sample lies
\* inside the box on all three axes (to the 1e-3 the positions are kept to),
\* the first one is the point where the ray enters the box, also when that
\* point is behind the camera (tmin < 0).  When tmin < tmax the exit point
\* tmax is never sampled; a ray that only touches the box (tmin = tmax) is
\* marched too, with dt = 0 and all 200 samples at that one point.
C29_SamplesInsideBoxUnlessTouching ==
    (/\ fragment.shader = "march"
     /\ ~fragment.discarded
     /\ ~Grazing(fragment.rayOrigin, fragment.vPosition)
     /\ ~Degenerate(fragment.rayOrigin, fragment.vPosition))
        => LET o     == fragment.rayOrigin
               p     == fragment.vPosition
               slab  == Slab(o, p, NaN)
               range == MarchRange(slab)
               tmax  == (slab.tmax.n * 1000000) \div slab.tmax.d
               first == SamplePos(o, p, range, LoopOrder[1])
               abs(x) == IF x < 0 THEN -x ELSE x
           IN  /\ Len(LoopOrder) = 200
               /\ \A k \in 1..200 : LoopOrder[k] = k - 1
               /\ range.tmin * slab.tmin.d <= slab.tmin.n * 1000000
               /\ slab.tmin.n * 1000000 < (range.tmin + 1) * slab.tmin.d
               /\ tmax - 200 < range.tmin + range.dt * 200
               /\ \A k \in 1..200 :
                     /\ Lt(slab.tmin, slab.tmax)
                           => /\ range.tmin + range.dt * LoopOrder[k] < tmax
                              /\ range.tmin + range.dt * (LoopOrder[k] + 1) <= tmax
                     /\ ~Lt(slab.tmin, slab.tmax)
                           => (range.dt = 0 /\ range.tmin + range.dt * LoopOrder[k] = tmax)
                     /\ \A c \in 1..3 :
                           abs(SamplePos(o, p, range, LoopOrder[k])[c])
                               <= boxHalfSize[c] * 1000 + 1
               /\ \E c \in 1..3 : abs(abs(first[c]) - boxHalfSize[c] * 1000) <= 1
               /\ fragment.color = MarchOver(fragment.effectiveHeat, o, p, range, LoopOrder)

\* C29 witness: the camera is inside the box, the march of a ray through it
\* started behind the camera (tmin < 0 < tmax).
C29_Witness ==
    /\ fragment.shader = "march"
    /\ ~fragment.discarded
    /\ ~Grazing(fragment.rayOrigin, fragment.vPosition)
    /\ \A c \in 1..3 : fragment.rayOrigin[c] < boxHalfSize[c] /\ fragment.rayOrigin[c] > -boxHalfSize[c]
    /\ Slab(fragment.rayOrigin, fragment.vPosition, NaN).tmin.n < 0
    /\ Slab(fragment.rayOrigin, fragment.vPosition, NaN).tmax.n > 0

\* C30: in every reachable state effectiveHeat >= 0, and so every sampled
\* temperature is >= baseTemp (the local heat is >= 0) and every colour the
\* heat field and the march produce has all channels in [0, 1] and green
\* exactly 0.
C30_HeatAndColoursInRange ==
    LET InRange(color) ==
            /\ \A c \in 1..3 : 0 <= color[c] /\ color[c] <= ColorOne
            /\ color[2] = 0
        heat == fragment.effectiveHeat
        o    == fragment.rayOrigin
        p    == fragment.vPosition
    IN  /\ simulationState.effectiveHeat >= 0
        /\ props.simulationState.effectiveHeat >= 0
        /\ uniforms.effectiveHeat >= 0
        /\ fragment.shader # "none" => (heat >= 0 /\ InRange(fragment.color))
        /\ fragment.shader = "surface"
              => ExpFactor(heat * 100, LengthXZ(p[1] * 1000, p[3] * 1000), hDecayScale) >= 0
        /\ (/\ fragment.shader = "march"
            /\ ~fragment.discarded
            /\ ~Grazing(o, p)
            /\ ~Degenerate(o, p))
              => \A i \in {0, 50, 100, 150, 199} :
                    LET range == MarchRange(Slab(o, p, NaN))
                        pos   == SamplePos(o, p, range, i)
                    IN  /\ LocalHeat(heat, pos[1], pos[2], pos[3]) >= 0
                        /\ InRange(SampleColor(heat, o, p, range, i))

\* C30 witness: after a descent into the dense air a ray down the axis of
\* the volume was marched with a heat above the plasma threshold and came
\* out in the plasma colour.
C30_Witness ==
    /\ fragment.shader = "march"
    /\ ~fragment.discarded
    /\ fragment.effectiveHeat = simulationState.effectiveHeat
    /\ fragment.effectiveHeat > plasmaThreshold - baseTemp
    /\ fragment.color[1] = PlasmaColor[1]

====
